---------------------------- MODULE Spec2Model ----------------------------
(***************************************************************************)
(* Scheduling and routing core of the Shadow discrete-event simulator.     *)
(*                                                                         *)
(*   Part I   the Simulation Engine (src/src/engine/shd-engine.h declares  *)
(*            its state and its interface; the bodies of engine_run,       *)
(*            engine_pushEvent and engine_notifyNodeProcessed are not part *)
(*            of the sources, so their behaviour follows spec.md 4.4/4.5). *)
(*   Part II  the Topology Router (src/src/topology/shd-topology.c).       *)
(*   Part III the lock programs of the router's calls: which of graphLock, *)
(*            virtualIPLock and pathCacheLock each call takes and when.    *)
(*   Part IV  topology_new and _topology_computePath over a family of      *)
(*            graph files.                                                 *)
(*                                                                         *)
(* The engine and the router share no state.  Spec runs the engine and     *)
(* leaves the router in its initial state.  TopoSpec runs the router with  *)
(* one querying thread while hosts are attached and detached; SeqSpec is   *)
(* TopoSpec with the calls made one after the other; RaceSpec runs         *)
(* concurrent queries on a router whose hosts are attached; LockSpec runs  *)
(* two threads through the lock programs; GraphSpec loads a graph file,    *)
(* computes paths on it and draws attachment candidates from it.  These    *)
(* leave the engine in its initial state.                                  *)
(***************************************************************************)
EXTENDS Integers, Sequences, FiniteSets, TLC

(***************************************************************************)
(* Bounds of the model.                                                    *)
(***************************************************************************)
\* largest endTime a configuration may ask for
MaxEndTime == 3
\* events created over a run (engine_pushEvent calls)
MaxEvents == 3
\* Path objects allocated over a run (path_new calls)
MaxPaths == 2
\* the random source returns k / RandomSteps for k in 0..RandomSteps
RandomSteps == 4

\* the minTimeJump values a configuration may ask for
Jumps == {1, 2}
\* the extra delays, beyond minTimeJump, a handler adds to an emitted event
Delays == {0, 1}

Hosts == {"h1", "h2"}
Workers == {"w1", "w2"}

\* The engine walks its host list in this order when it dispatches.
HostOrder == <<"h1", "h2">>
WorkerOrder == <<"w1", "w2">>

Min(a, b) == IF a <= b THEN a ELSE b

VARIABLES
    \* ---- struct _Engine (shd-engine.h:35-108)
    clock,                \* SimulationTime clock
    minTimeJump,          \* SimulationTime minTimeJump
    executeWindowStart,   \* SimulationTime executeWindowStart
    executeWindowEnd,     \* SimulationTime executeWindowEnd
    endTime,              \* SimulationTime endTime
    engineIdle,           \* GMutex* engineIdle: "engine" while the engine holds it, else "none"
    workersIdle,          \* GCond* workersIdle: TRUE once signalled, until the waiter consumes it
    killed,               \* gboolean killed
    nNodesToProcess,      \* protect.nNodesToProcess
    \* ---- control state of engine_run and of the pool
    engineState,          \* Initialized, Running, Draining, Killed, Freed
    enginePC,             \* position of the engine thread inside engine_run
    toDispatch,           \* hosts the dispatch loop of this window has not looked at yet, in list order
    workerPool,           \* GThreadPool* workerPool: work items (hosts) pushed and not yet claimed
    queue,                \* per host event queue: a set of events, read in (fireTime, sequenceTag) order
    seqCounter,           \* last sequenceTag handed out
    workerPC,             \* per worker: idle, run, signal
    workerHost,           \* per worker: the host it claimed
    \* ---- history, read by the properties only
    executed,             \* per host: the event executed last, with the window it ran in
    nWindows,             \* windows begun so far
    \* ---- struct _Topology (shd-topology.c:9-51)
    virtualIP,            \* GHashTable* virtualIP: address -> vertex index
    pathCache,            \* GHashTable* pathCache: source -> (destination -> Path*); empty while NULL
    \* ---- the heap and the process
    paths,                \* the Path objects allocated by path_new, in allocation order
    topState,             \* ready, crashed (the process died), freed (topology_free ran)
    \* ---- one query per thread
    queryPC,              \* per thread, in _topology_getPathEntry: idle, vsrc, vdst, compute, store, read, done
    query,                \* per thread: srcAddress, dstAddress of the call
    local,                \* per thread: path, srcVertexIndex, dstVertexIndex (reset once dead)
    result,               \* per thread: what _topology_getPathEntry returned (found, *latency, *reliability)
    unattached,           \* per thread: the addresses of the call not attached at any time since it began
    \* ---- the locks of struct _Topology
    graphLock,            \* GMutex graphLock: the thread that holds it, or "none"
    virtualIPLock,        \* GRWLock virtualIPLock: its writer (or "none") and its readers
    pathCacheLock,        \* GRWLock pathCacheLock: its writer (or "none") and its readers
    lockPC,               \* per thread: the router call it is in and the lock-level step it is at
    \* ---- construction of the router and one path computation on its graph
    graph,                \* igraph_t graph: what the GraphML file describes
    topology,             \* what topology_new returned (none yet, loaded, null) and the library fault met
    computedPath,         \* the last result of _topology_computePath for two vertices of graph
    drawn                 \* the last candidate draw of topology_connect: randomDouble, count, vertexIndexPtr

engineVars == <<clock, minTimeJump, executeWindowStart, executeWindowEnd, endTime,
                engineIdle, workersIdle, killed, nNodesToProcess, engineState,
                enginePC, toDispatch, workerPool, queue, seqCounter, workerPC,
                workerHost, executed, nWindows>>

topVars == <<virtualIP, pathCache, paths, topState, queryPC, query, local, result,
             unattached>>

lockVars == <<graphLock, virtualIPLock, pathCacheLock, lockPC>>

graphVars == <<graph, topology, computedPath, drawn>>

vars == <<engineVars, topVars, lockVars, graphVars>>

NoHost == "none"

\* executed[h] of a host that has not executed an event yet.
NoEvent == [fireTime |-> -1, tag |-> 0, born |-> 0, win |-> 0, winStart |-> 0, winEnd |-> 0]

(***************************************************************************)
(* Part I: the Simulation Engine                                           *)
(***************************************************************************)

\* Ordering key of the per-host queue: (fireTime, sequenceTag).
EventBefore(e, f) ==
    \/ e.fireTime < f.fireTime
    \/ e.fireTime = f.fireTime /\ e.tag < f.tag

\* A plausible slip: the queue is read in insertion order.
NextEventFifo(q) == CHOOSE e \in q : \A f \in q : e.tag <= f.tag

\* Head of a host's priority queue.
NextEvent(q) == CHOOSE e \in q : \A f \in q : f = e \/ EventBefore(e, f)

\* A plausible slip: the closed window of the overview ("time <= window-end").
DueInclusive(e) == e.fireTime <= executeWindowEnd

\* An event is due in the current window [executeWindowStart, executeWindowEnd).
Due(e) == e.fireTime < executeWindowEnd

HasDue(h) == \E e \in queue[h] : Due(e)

\* A plausible slip: a worker reports its host after one event.
HostDoneEarly(h) == TRUE

\* A worker has drained its host when no due event is left in the host's queue.
HostDone(h) == ~HasDue(h)

\* A plausible slip: the window end is not clamped to endTime.
WindowEndUnclamped(start) == start + minTimeJump

\* A plausible slip: the window runs to the end of the simulation.
WindowEndWhole(start) == endTime

\* executeWindowEnd = min(endTime, start + minTimeJump)
WindowEnd(start) == Min(endTime, start + minTimeJump)

\* A plausible slip: the wait returns without the signal (a spurious wakeup
\* that is not re-checked).
BarrierOpenSpurious == TRUE

\* The engine's wait on workersIdle returns once the condition was signalled.
BarrierOpen == workersIdle

\* A plausible slip: an emitted event carries the handler's delay only.
EmitTimeNoJump(now, delay) == now + delay

\* fireTime of an event a handler running at host time now emits.
EmitTime(now, delay) == now + minTimeJump + delay

liveHostCount == Cardinality(Hosts)

\* A plausible slip: the loop ends when nothing is due in the window just
\* closed, although later events remain.
NoEventsDue == \A h \in Hosts : ~HasDue(h)

NoEventsRemain == \A h \in Hosts : queue[h] = {}

InitEngine ==
    /\ clock = 0
    /\ minTimeJump \in Jumps
    /\ endTime \in 1..MaxEndTime
    /\ executeWindowStart = 0
    /\ executeWindowEnd = 0
    /\ engineIdle = "none"
    /\ workersIdle = FALSE
    /\ killed = FALSE
    /\ nNodesToProcess = 0
    /\ engineState = "Initialized"
    /\ enginePC = "new"
    /\ toDispatch = <<>>
    /\ workerPool = {}
    /\ queue = [h \in Hosts |-> {}]
    /\ seqCounter = 0
    /\ workerPC = [w \in Workers |-> "idle"]
    /\ workerHost = [w \in Workers |-> NoHost]
    /\ executed = [h \in Hosts |-> NoEvent]
    /\ nWindows = 0

\* engine_pushEvent called by the code that sets the simulation up, before run().
PushEvent(h, t) ==
    /\ UNCHANGED <<topVars, lockVars, graphVars>>
    /\ engineState = "Initialized"
    /\ seqCounter < MaxEvents
    /\ seqCounter' = seqCounter + 1
    /\ queue' = [queue EXCEPT ![h] = @ \cup {[fireTime |-> t, tag |-> seqCounter + 1, born |-> 0]}]
    /\ UNCHANGED <<clock, minTimeJump, executeWindowStart, executeWindowEnd, endTime,
                   engineIdle, workersIdle, killed, nNodesToProcess, engineState,
                   enginePC, toDispatch, workerPool, workerPC, workerHost, executed,
                   nWindows>>

\* engine_run: Initialized -> Running.  The engine thread holds engineIdle
\* whenever it is not waiting on workersIdle.
EngineRun ==
    /\ UNCHANGED <<topVars, lockVars, graphVars>>
    /\ engineState = "Initialized"
    /\ engineState' = "Running"
    /\ enginePC' = "loop"
    /\ engineIdle' = "engine"
    /\ executeWindowStart' = 0
    /\ executeWindowEnd' = 0
    /\ UNCHANGED <<clock, minTimeJump, endTime, workersIdle, killed, nNodesToProcess,
                   toDispatch, workerPool, queue, seqCounter, workerPC, workerHost,
                   executed, nWindows>>

\* Top of the loop of engine_run: leave Running when clock >= endTime or no
\* events remain, else open the next window and set the barrier counter
\* (barrier protocol, step 1).
EngineBeginWindow ==
    /\ UNCHANGED <<topVars, lockVars, graphVars>>
    /\ engineState = "Running"
    /\ enginePC = "loop"
    /\ IF clock >= endTime \/ NoEventsRemain
       THEN /\ engineState' = "Draining"
            /\ enginePC' = "drain"
            /\ killed' = TRUE
            /\ engineIdle' = "none"
            /\ UNCHANGED <<executeWindowEnd, nNodesToProcess, toDispatch, nWindows>>
       ELSE /\ executeWindowEnd' = WindowEnd(executeWindowStart)
            /\ nNodesToProcess' = liveHostCount
            /\ toDispatch' = HostOrder
            /\ nWindows' = nWindows + 1
            /\ enginePC' = "dispatch"
            /\ UNCHANGED <<engineState, killed, engineIdle>>
    /\ UNCHANGED <<clock, minTimeJump, executeWindowStart, endTime, workersIdle,
                   workerPool, queue, seqCounter, workerPC, workerHost, executed>>

\* Barrier protocol, step 2: one host of the dispatch loop.
EngineDispatch ==
    /\ UNCHANGED <<topVars, lockVars, graphVars>>
    /\ engineState = "Running"
    /\ enginePC = "dispatch"
    /\ toDispatch # <<>>
    /\ toDispatch' = Tail(toDispatch)
    /\ workerPool' = IF HasDue(Head(toDispatch))
                     THEN workerPool \cup {Head(toDispatch)}
                     ELSE workerPool
    /\ UNCHANGED <<clock, minTimeJump, executeWindowStart, executeWindowEnd, endTime,
                   engineIdle, workersIdle, killed, nNodesToProcess, engineState,
                   enginePC, queue, seqCounter, workerPC, workerHost, executed,
                   nWindows>>

\* Barrier protocol, step 4, first half: g_cond_wait(workersIdle, engineIdle)
\* releases engineIdle and blocks.
EngineWait ==
    /\ UNCHANGED <<topVars, lockVars, graphVars>>
    /\ engineState = "Running"
    /\ enginePC = "dispatch"
    /\ toDispatch = <<>>
    /\ enginePC' = "wait"
    /\ engineIdle' = "none"
    /\ UNCHANGED <<clock, minTimeJump, executeWindowStart, executeWindowEnd, endTime,
                   workersIdle, killed, nNodesToProcess, engineState, toDispatch,
                   workerPool, queue, seqCounter, workerPC, workerHost, executed,
                   nWindows>>

\* The wait returns: the engine owns engineIdle again.
EngineWake ==
    /\ UNCHANGED <<topVars, lockVars, graphVars>>
    /\ engineState = "Running"
    /\ enginePC = "wait"
    /\ engineIdle = "none"
    /\ BarrierOpen
    /\ workersIdle' = FALSE
    /\ engineIdle' = "engine"
    /\ enginePC' = "advance"
    /\ UNCHANGED <<clock, minTimeJump, executeWindowStart, executeWindowEnd, endTime,
                   killed, nNodesToProcess, engineState, toDispatch, workerPool, queue,
                   seqCounter, workerPC, workerHost, executed, nWindows>>

\* Barrier protocol, step 4, second half.
EngineAdvance ==
    /\ UNCHANGED <<topVars, lockVars, graphVars>>
    /\ engineState = "Running"
    /\ enginePC = "advance"
    /\ executeWindowStart' = executeWindowEnd
    /\ clock' = executeWindowEnd
    /\ enginePC' = "loop"
    /\ UNCHANGED <<minTimeJump, executeWindowEnd, endTime, engineIdle, workersIdle,
                   killed, nNodesToProcess, engineState, toDispatch, workerPool, queue,
                   seqCounter, workerPC, workerHost, executed, nWindows>>

\* engine_teardownWorkerThreads: Draining -> Killed once the workers are joined.
EngineJoin ==
    /\ UNCHANGED <<topVars, lockVars, graphVars>>
    /\ engineState = "Draining"
    /\ \A w \in Workers : workerPC[w] = "idle"
    /\ engineState' = "Killed"
    /\ enginePC' = "joined"
    /\ UNCHANGED <<clock, minTimeJump, executeWindowStart, executeWindowEnd, endTime,
                   engineIdle, workersIdle, killed, nNodesToProcess, toDispatch,
                   workerPool, queue, seqCounter, workerPC, workerHost, executed,
                   nWindows>>

\* engine_free: Killed -> (terminal)
EngineFree ==
    /\ UNCHANGED <<topVars, lockVars, graphVars>>
    /\ engineState = "Killed"
    /\ engineState' = "Freed"
    /\ enginePC' = "freed"
    /\ UNCHANGED <<clock, minTimeJump, executeWindowStart, executeWindowEnd, endTime,
                   engineIdle, workersIdle, killed, nNodesToProcess, toDispatch,
                   workerPool, queue, seqCounter, workerPC, workerHost, executed,
                   nWindows>>

\* The pool hands a work item to a free thread.  The threads are
\* interchangeable, so the free thread is taken in a fixed order.
FreeWorker ==
    WorkerOrder[CHOOSE i \in 1..Len(WorkerOrder) :
                   /\ workerPC[WorkerOrder[i]] = "idle"
                   /\ \A j \in 1..(i - 1) : workerPC[WorkerOrder[j]] # "idle"]

WorkerClaim(w, h) ==
    /\ UNCHANGED <<topVars, lockVars, graphVars>>
    /\ \E v \in Workers : workerPC[v] = "idle"
    /\ w = FreeWorker
    /\ h \in workerPool
    /\ workerPool' = workerPool \ {h}
    /\ workerPC' = [workerPC EXCEPT ![w] = "run"]
    /\ workerHost' = [workerHost EXCEPT ![w] = h]
    /\ UNCHANGED <<clock, minTimeJump, executeWindowStart, executeWindowEnd, endTime,
                   engineIdle, workersIdle, killed, nNodesToProcess, engineState,
                   enginePC, toDispatch, queue, seqCounter, executed, nWindows>>

\* The set of events a handler running at host time now may emit: nothing, or
\* one event for any host, through engine_pushEvent.
Emissions(now) ==
    {<<NoHost, 0>>} \cup
    (IF seqCounter < MaxEvents
     THEN {<<d, EmitTime(now, delay)>> : d \in Hosts, delay \in Delays}
     ELSE {})

\* Barrier protocol, step 3: the worker executes the next due event of its
\* host; the handler may emit an event.
WorkerExecuteEvent(w) ==
    /\ UNCHANGED <<topVars, lockVars, graphVars>>
    /\ workerPC[w] = "run"
    /\ ~killed
    /\ HasDue(workerHost[w])
    /\ LET h == workerHost[w]
           e == NextEvent({x \in queue[h] : Due(x)})
           rest == [queue EXCEPT ![h] = @ \ {e}]
       IN /\ executed' = [executed EXCEPT ![h] =
                 [fireTime |-> e.fireTime, tag |-> e.tag, born |-> e.born,
                  win |-> nWindows, winStart |-> executeWindowStart,
                  winEnd |-> executeWindowEnd]]
          /\ \E em \in Emissions(e.fireTime) :
                IF em[1] = NoHost
                THEN /\ queue' = rest
                     /\ seqCounter' = seqCounter
                ELSE /\ queue' = [rest EXCEPT ![em[1]] = @ \cup
                            {[fireTime |-> em[2], tag |-> seqCounter + 1, born |-> nWindows]}]
                     /\ seqCounter' = seqCounter + 1
    /\ UNCHANGED <<clock, minTimeJump, executeWindowStart, executeWindowEnd, endTime,
                   engineIdle, workersIdle, killed, nNodesToProcess, engineState,
                   enginePC, toDispatch, workerPool, workerPC, workerHost, nWindows>>

\* A plausible slip: the worker signals after every host it finishes,
\* whatever the counter says.
DecAndTestAlways(n) == TRUE

\* The atomic decrement-and-test of the barrier counter: TRUE when the
\* post-decrement value of a counter that held n is zero.
DecAndTest(n) == n - 1 = 0

\* engine_notifyNodeProcessed: the host is drained; decrement the counter
\* atomically and, on zero, go on to signal the engine.
WorkerNotify(w) ==
    /\ UNCHANGED <<topVars, lockVars, graphVars>>
    /\ workerPC[w] = "run"
    /\ killed \/ HostDone(workerHost[w])
    /\ nNodesToProcess' = nNodesToProcess - 1
    /\ workerPC' = [workerPC EXCEPT ![w] = IF DecAndTest(nNodesToProcess) THEN "signal" ELSE "idle"]
    /\ workerHost' = [workerHost EXCEPT ![w] = NoHost]
    /\ UNCHANGED <<clock, minTimeJump, executeWindowStart, executeWindowEnd, endTime,
                   engineIdle, workersIdle, killed, engineState, enginePC, toDispatch,
                   workerPool, queue, seqCounter, executed, nWindows>>

\* The worker that saw zero takes engineIdle (free only while the engine
\* waits), signals workersIdle and releases engineIdle.
WorkerSignal(w) ==
    /\ UNCHANGED <<topVars, lockVars, graphVars>>
    /\ workerPC[w] = "signal"
    /\ engineIdle = "none"
    /\ workersIdle' = TRUE
    /\ workerPC' = [workerPC EXCEPT ![w] = "idle"]
    /\ UNCHANGED <<clock, minTimeJump, executeWindowStart, executeWindowEnd, endTime,
                   engineIdle, killed, nNodesToProcess, engineState, enginePC,
                   toDispatch, workerPool, queue, seqCounter, workerHost, executed,
                   nWindows>>

(***************************************************************************)
(* Part II: the Topology Router                                            *)
(***************************************************************************)

Addrs == {"a", "b"}
Threads == {"t1", "t2"}
MainThread == "t1"

\* A NULL pointer; Path objects are numbered from 1 in allocation order.
NULL == 0

\* _topology_getConnectedVertexIndex: the address is not in virtualIP.
NoVertex == -1

\* What a query returns on failure: (gdouble) -1.
Failed == -1

\* A value read through a dangling or wild pointer.
Garbage == -2

\* The graph of the loaded GraphML file.  Vertex v (igraph numbers vertices
\* from 0) is described by position v + 1 of id, packetloss, bandwidthup and
\* bandwidthdown; packetloss is in percent, latency in ms.
TheGraph ==
    [id |-> << <<"p", "o", "i", "A">>, <<"p", "o", "i", "B">> >>,
     packetloss |-> <<10, 20>>,
     bandwidthup |-> <<100, 200>>,
     bandwidthdown |-> <<100, 200>>,
     edges |-> << [from |-> 0, to |-> 1, latency |-> 10, packetloss |-> 5],
                  [from |-> 1, to |-> 0, latency |-> 10, packetloss |-> 5] >>]

Vertices(g) == 0..(Len(g.id) - 1)
EdgeIds(g) == 1..Len(g.edges)

\* VAN(&top->graph, "packetloss", v), in percent
VertexLoss(g, v) == g.packetloss[v + 1]

\* g_strstr_len(idStr, -1, "poi") != NULL
IsPoi(idStr) ==
    \E i \in 1..(Len(idStr) - 2) :
        idStr[i] = "p" /\ idStr[i + 1] = "o" /\ idStr[i + 2] = "i"

\* _topology_extractEdgeWeights: the latency attribute of every edge
edgeWeights(g) == [e \in EdgeIds(g) |-> g.edges[e].latency]

EdgesBetween(g, u, v) == {e \in EdgeIds(g) : g.edges[e].from = u /\ g.edges[e].to = v}

\* igraph_get_eid(graph, &edgeIndex, from, to, directed = TRUE)
GetEid(g, u, v) == CHOOSE e \in EdgesBetween(g, u, v) : \A f \in EdgesBetween(g, u, v) : e <= f

\* The vertex sequences of the directed simple paths of g.
SimplePaths(g) ==
    {p \in UNION {[1..k -> Vertices(g)] : k \in 1..Len(g.id)} :
        /\ \A i, j \in 1..Len(p) : i # j => p[i] # p[j]
        /\ \A i \in 1..(Len(p) - 1) : EdgesBetween(g, p[i], p[i + 1]) # {}}

\* Weight of the lightest edge from u to v.
StepWeight(g, u, v) ==
    LET w == edgeWeights(g)
    IN w[CHOOSE e \in EdgesBetween(g, u, v) : \A f \in EdgesBetween(g, u, v) : w[e] <= w[f]]

RECURSIVE PathWeight(_, _)
PathWeight(g, p) ==
    IF Len(p) < 2 THEN 0
    ELSE StepWeight(g, p[1], p[2]) + PathWeight(g, Tail(p))

\* igraph_get_shortest_paths_dijkstra(graph, &resultPaths, src, {dst},
\* edgeWeights, IGRAPH_OUT): the vertices of a lightest path from src to dst.
ShortestPath(g, s, d) ==
    LET cand == {p \in SimplePaths(g) : p[1] = s /\ p[Len(p)] = d}
    IN CHOOSE p \in cand : \A q \in cand : PathWeight(g, p) <= PathWeight(g, q)

\* Reliabilities are exact fractions of RelUnit = 100^4: a path of this
\* graph multiplies at most four factors (100 - packetloss) / 100.
RelUnit == 100 * 100 * 100 * 100

RECURSIVE WalkLatency(_, _)
WalkLatency(g, p) ==
    IF Len(p) < 2 THEN 0
    ELSE g.edges[GetEid(g, p[1], p[2])].latency + WalkLatency(g, Tail(p))

\* A plausible slip: the edges of the path do not count.
WalkReliabilityVerticesOnly(g, p, unit) == unit

\* Product of the (1 - packetloss) of the edges walked, as a fraction of unit.
RECURSIVE WalkReliability(_, _, _)
WalkReliability(g, p, unit) ==
    IF Len(p) < 2 THEN unit
    ELSE WalkReliability(g, Tail(p),
             (unit \div 100) * (100 - g.edges[GetEid(g, p[1], p[2])].packetloss))

\* A plausible slip: no special case for a path without edges, and the
\* destination vertex counted only when it differs from the source.
PathValueNoSelf(g, srcVertexIndex, dstVertexIndex) ==
    LET resultPathVertices == ShortestPath(g, srcVertexIndex, dstVertexIndex)
        ends == IF srcVertexIndex = dstVertexIndex
                THEN (RelUnit \div 100) * (100 - VertexLoss(g, srcVertexIndex))
                ELSE (RelUnit \div (100 * 100)) * (100 - VertexLoss(g, srcVertexIndex))
                         * (100 - VertexLoss(g, dstVertexIndex))
    IN [latency |-> WalkLatency(g, resultPathVertices),
        reliability |-> WalkReliability(g, resultPathVertices, ends)]

\* _topology_computePath after a successful Dijkstra: the latency and the
\* reliability handed to path_new.
PathValue(g, srcVertexIndex, dstVertexIndex) ==
    LET resultPathVertices == ShortestPath(g, srcVertexIndex, dstVertexIndex)
        ends == (RelUnit \div (100 * 100)) * (100 - VertexLoss(g, srcVertexIndex))
                    * (100 - VertexLoss(g, dstVertexIndex))
    IN [latency |-> IF Len(resultPathVertices) < 2 THEN 1
                    ELSE WalkLatency(g, resultPathVertices),
        reliability |-> WalkReliability(g, resultPathVertices, ends)]

\* What _topology_computePath finds in the loaded graph for every pair of
\* vertices: the Path it builds and the number of vertices Dijkstra returned.
ComputedPaths ==
    [s \in Vertices(TheGraph) |->
        [d \in Vertices(TheGraph) |->
            [path |-> PathValue(TheGraph, s, d),
             nVertices |-> Len(ShortestPath(TheGraph, s, d))]]]

\* The igraph calls of _topology_computePath that can return non-success.
LibOutcomes(s, d) ==
    {"ok", "igraph_vs_1", "dijkstra"} \cup
    (IF ComputedPaths[s][d].nVertices >= 2 THEN {"get_eid"} ELSE {})

\* _topology_getPathFromCache, under the pathCache reader lock
CacheLookup(src, dst) ==
    IF src \in DOMAIN pathCache /\ dst \in DOMAIN pathCache[src]
    THEN pathCache[src][dst] ELSE NULL

\* g_hash_table_replace(table, key, value) on a table read as a function
TableReplace(table, key, value) ==
    [k \in DOMAIN table \cup {key} |-> IF k = key THEN value ELSE table[k]]

EmptyTable == [k \in {} |-> NULL]

NoQuery == [src |-> "none", dst |-> "none"]

\* _topology_getPathEntry returned FALSE; the out parameters keep the 0 their
\* callers initialised them with.
NotFound == [found |-> FALSE, latency |-> 0, reliability |-> 0]
NoLocal == [path |-> NULL, srcVertexIndex |-> NoVertex, dstVertexIndex |-> NoVertex]

\* topology_new, and the attachments made so far
InitTopologyWith(attached) ==
    /\ virtualIP = attached
    /\ pathCache = EmptyTable
    /\ paths = <<>>
    /\ topState = "ready"
    /\ queryPC = [t \in Threads |-> "idle"]
    /\ query = [t \in Threads |-> NoQuery]
    /\ local = [t \in Threads |-> NoLocal]
    /\ result = [t \in Threads |-> NotFound]
    /\ unattached = [t \in Threads |-> {}]

\* topology_new: virtualIP and pathCache start empty
InitTopology == InitTopologyWith(EmptyTable)

NoThread == "none"

\* g_rw_lock_init: no writer, no reader
FreeRWLock == [writer |-> NoThread, readers |-> {}]

\* A thread that is in no router call.
NoCall == [op |-> <<"none">>, at |-> 0]

\* No path computed yet.
NoPath == [src |-> NoVertex, dst |-> NoVertex, latency |-> 0, reliability |-> 0]

\* drawn before topology_connect has drawn a candidate.
NoDraw == [k |-> -1, count |-> 0, vertexIndexPtr |-> NULL]

\* topology_new returned a Topology for graph g.
InitGraphLoaded(g) ==
    /\ graph = g
    /\ topology = [state |-> "loaded", fault |-> "none"]
    /\ computedPath = NoPath
    /\ drawn = NoDraw

\* topology_new: g_mutex_init, g_rw_lock_init
InitLocks ==
    /\ graphLock = NoThread
    /\ virtualIPLock = FreeRWLock
    /\ pathCacheLock = FreeRWLock
    /\ lockPC = [t \in Threads |-> NoCall]

\* The PoI vertices in vertex order: the candidates queue that
\* _topology_connectHelperHook fills.
Candidates(g) ==
    LET RECURSIVE Upto(_)
        Upto(v) == IF v < 0 THEN <<>>
                   ELSE IF IsPoi(g.id[v + 1]) THEN Append(Upto(v - 1), v) ELSE Upto(v - 1)
    IN Upto(Len(g.id) - 1)

\* (guint) round(numCandidates * randomDouble) for randomDouble = k / RandomSteps
RoundCount(numCandidates, k) == (2 * numCandidates * k + RandomSteps) \div (2 * RandomSteps)

\* The pointer topology_connect is left with after popping: the popped
\* datum is GINT_TO_POINTER(vertexIndex), so vertex 0 is a NULL pointer, and
\* no pop at all leaves the initial NULL.
PoppedPointer(g, k) ==
    LET cand == Candidates(g)
        count == RoundCount(Len(cand), k)
    IN IF Len(cand) > 1
       THEN (IF count = 0 THEN NULL ELSE cand[count])
       ELSE cand[1]

\* vertexIndex = *vertexIndexPtr reads through an integer used as an
\* address: undefined.  The read yields some index, or the process dies
\* (AttachDies).
DerefOutcomes(g) == Vertices(g)

\* topology_connect stops the process: utility_assert(numCandidates > 0) or
\* utility_assert(vertexIndexPtr) fails, or the read through the pointer
\* faults.  Nothing of the process is left.
AttachDies ==
    /\ UNCHANGED <<engineVars, lockVars, graphVars>>
    /\ topState = "ready"
    /\ topState' = "crashed"
    /\ virtualIP' = EmptyTable
    /\ pathCache' = EmptyTable
    /\ paths' = <<>>
    /\ queryPC' = [t \in Threads |-> "idle"]
    /\ query' = [t \in Threads |-> NoQuery]
    /\ local' = [t \in Threads |-> NoLocal]
    /\ result' = [t \in Threads |-> NotFound]
    /\ unattached' = [t \in Threads |-> {}]

\* topology_connect runs to its end: the mapping is stored under the
\* virtualIP writer lock.
Attach(a, k) ==
    /\ UNCHANGED <<engineVars, lockVars, graphVars>>
    /\ topState = "ready"
    /\ Candidates(TheGraph) # <<>>
    /\ PoppedPointer(TheGraph, k) # NULL
    /\ \E vertexIndex \in DerefOutcomes(TheGraph) :
          virtualIP' = TableReplace(virtualIP, a, vertexIndex)
    /\ unattached' = [t \in Threads |-> unattached[t] \ {a}]
    /\ UNCHANGED <<pathCache, paths, topState, queryPC, query, local, result>>

\* topology_disconnect
Detach(a) ==
    /\ UNCHANGED <<engineVars, lockVars, graphVars>>
    /\ topState = "ready"
    /\ a \in DOMAIN virtualIP
    /\ virtualIP' = [k \in DOMAIN virtualIP \ {a} |-> virtualIP[k]]
    /\ UNCHANGED <<pathCache, paths, topState, queryPC, query, local, result, unattached>>

\* The locks of struct _Topology, and the statements that use them.
Locks == {"graphLock", "virtualIPLock", "pathCacheLock"}

Lock(l, mode) == [do |-> "lock", lock |-> l, mode |-> mode]
Unlock(l, mode) == [do |-> "unlock", lock |-> l, mode |-> mode]
\* an access to what the lock protects: the graph, the virtualIP table, the cache
Use(l) == [do |-> "use", lock |-> l, mode |-> "-"]

\* A plausible slip: the failure exits of _topology_computePath return
\* without g_mutex_unlock.
ComputeLocksLeaky(out) ==
    CASE out = "ok" ->
            << Lock("graphLock", "x"), Use("graphLock"), Use("graphLock"),
               Unlock("graphLock", "x") >>
      [] out = "get_eid" ->
            << Lock("graphLock", "x"), Use("graphLock"), Use("graphLock") >>
      [] out = "dijkstra" ->
            << Lock("graphLock", "x"), Use("graphLock") >>
      [] OTHER -> << >>

\* _topology_computePath after the two vertex lookups, by the way it ends:
\* an address is not connected or igraph_vs_1 fails (graphLock not taken),
\* Dijkstra fails (unlock at 503), igraph_get_eid fails (unlock at 552),
\* success (unlock at 573).
ComputeLocks(out) ==
    CASE out = "ok" ->
            << Lock("graphLock", "x"), Use("graphLock"), Use("graphLock"),
               Unlock("graphLock", "x") >>
      [] out = "get_eid" ->
            << Lock("graphLock", "x"), Use("graphLock"), Use("graphLock"),
               Unlock("graphLock", "x") >>
      [] out = "dijkstra" ->
            << Lock("graphLock", "x"), Use("graphLock"), Unlock("graphLock", "x") >>
      [] OTHER -> << >>

\* graphLock after thread t made the step
MutexAfter(holder, t, step) ==
    IF step.lock # "graphLock" THEN holder
    ELSE IF step.do = "lock" THEN t
    ELSE IF step.do = "unlock" THEN NoThread
    ELSE holder

\* graphLock after thread t ran the statements of prog
RECURSIVE GraphLockAfter(_, _, _)
GraphLockAfter(holder, t, prog) ==
    IF prog = << >> THEN holder
    ELSE GraphLockAfter(MutexAfter(holder, t, Head(prog)), t, Tail(prog))

\* _topology_getConnectedVertexIndex, under the virtualIP reader lock
ConnectedVertexIndex(a) == IF a \in DOMAIN virtualIP THEN virtualIP[a] ELSE NoVertex

\* topology_getLatency(top, srcAddress, dstAddress), from what its call of
\* _topology_getPathEntry returned
topology_getLatency(r) == IF r.found THEN r.latency ELSE Failed

\* topology_getReliability(top, srcAddress, dstAddress)
topology_getReliability(r) == IF r.found THEN r.reliability ELSE Failed

\* topology_isRoutable(top, srcAddress, dstAddress)
topology_isRoutable(r) == topology_getLatency(r) > -1

\* topology_getLatency / topology_getReliability / topology_isRoutable enter
\* _topology_getPathEntry, which looks the pair up in the cache.
QueryStart(t, src, dst) ==
    /\ UNCHANGED <<engineVars, lockVars, graphVars>>
    /\ topState = "ready"
    /\ queryPC[t] = "idle"
    /\ query' = [query EXCEPT ![t] = [src |-> src, dst |-> dst]]
    /\ local' = [local EXCEPT ![t].path = CacheLookup(src, dst)]
    /\ queryPC' = [queryPC EXCEPT ![t] = IF CacheLookup(src, dst) # NULL THEN "read" ELSE "vsrc"]
    /\ unattached' = [unattached EXCEPT ![t] = {x \in {src, dst} : x \notin DOMAIN virtualIP}]
    /\ UNCHANGED <<virtualIP, pathCache, paths, topState, result>>

\* _topology_computePath: srcVertexIndex
QueryVertexSrc(t) ==
    /\ UNCHANGED <<engineVars, lockVars, graphVars>>
    /\ topState = "ready"
    /\ queryPC[t] = "vsrc"
    /\ local' = [local EXCEPT ![t].srcVertexIndex = ConnectedVertexIndex(query[t].src)]
    /\ queryPC' = [queryPC EXCEPT ![t] = "vdst"]
    /\ UNCHANGED <<virtualIP, pathCache, paths, topState, query, result, unattached>>

\* _topology_computePath: dstVertexIndex, and the return of NULL when either
\* address is not connected
QueryVertexDst(t) ==
    /\ UNCHANGED <<engineVars, lockVars, graphVars>>
    /\ topState = "ready"
    /\ queryPC[t] = "vdst"
    /\ IF local[t].srcVertexIndex < 0 \/ ConnectedVertexIndex(query[t].dst) < 0
       THEN /\ queryPC' = [queryPC EXCEPT ![t] = "done"]
            /\ result' = [result EXCEPT ![t] = NotFound]
            /\ local' = [local EXCEPT ![t] = NoLocal]
       ELSE /\ queryPC' = [queryPC EXCEPT ![t] = "compute"]
            /\ local' = [local EXCEPT ![t].dstVertexIndex = ConnectedVertexIndex(query[t].dst)]
            /\ UNCHANGED result
    /\ UNCHANGED <<virtualIP, pathCache, paths, topState, query, unattached>>

\* _topology_computePath: the igraph calls, under graphLock, and path_new
QueryCompute(t) ==
    /\ UNCHANGED <<engineVars, graphVars, virtualIPLock, pathCacheLock, lockPC>>
    /\ topState = "ready"
    /\ queryPC[t] = "compute"
    /\ \E out \in LibOutcomes(local[t].srcVertexIndex, local[t].dstVertexIndex) :
          /\ ComputeLocks(out) # << >> => graphLock = NoThread
          /\ graphLock' = GraphLockAfter(graphLock, t, ComputeLocks(out))
          /\ IF out = "ok"
             THEN /\ Len(paths) < MaxPaths
                  /\ paths' = Append(paths,
                        [latency |-> ComputedPaths[local[t].srcVertexIndex]
                                                  [local[t].dstVertexIndex].path.latency,
                         reliability |-> ComputedPaths[local[t].srcVertexIndex]
                                                      [local[t].dstVertexIndex].path.reliability,
                         freed |-> FALSE])
                  /\ local' = [local EXCEPT ![t] = [NoLocal EXCEPT !.path = Len(paths) + 1]]
                  /\ queryPC' = [queryPC EXCEPT ![t] = "store"]
                  /\ UNCHANGED result
             ELSE /\ queryPC' = [queryPC EXCEPT ![t] = "done"]
                  /\ result' = [result EXCEPT ![t] = NotFound]
                  /\ local' = [local EXCEPT ![t] = NoLocal]
                  /\ UNCHANGED paths
    /\ UNCHANGED <<virtualIP, pathCache, topState, query, unattached>>

\* _topology_storePathInCache, under the pathCache writer lock.  The source
\* tables are created with path_free as value destroy function, so
\* g_hash_table_replace frees the Path it replaces.
QueryStore(t) ==
    /\ UNCHANGED <<engineVars, lockVars, graphVars>>
    /\ topState = "ready"
    /\ queryPC[t] = "store"
    /\ LET src == query[t].src
           dst == query[t].dst
           old == CacheLookup(src, dst)
           top == pathCache
           sourceCache == IF src \in DOMAIN top THEN top[src] ELSE EmptyTable
       IN /\ pathCache' = TableReplace(top, src, TableReplace(sourceCache, dst, local[t].path))
          /\ paths' = IF old = NULL THEN paths ELSE [paths EXCEPT ![old].freed = TRUE]
    /\ queryPC' = [queryPC EXCEPT ![t] = "read"]
    /\ UNCHANGED <<virtualIP, topState, query, local, result, unattached>>

\* What path_getLatency / path_getReliability read from Path p: its field,
\* or anything once p was freed.
ReadField(p, field) ==
    IF paths[p].freed THEN {paths[p][field], Garbage} ELSE {paths[p][field]}

\* _topology_getPathEntry: *latency = path_getLatency(path),
\* *reliability = path_getReliability(path), return TRUE
QueryRead(t) ==
    /\ UNCHANGED <<engineVars, lockVars, graphVars>>
    /\ topState = "ready"
    /\ queryPC[t] = "read"
    /\ \E l \in ReadField(local[t].path, "latency"),
          r \in ReadField(local[t].path, "reliability") :
          result' = [result EXCEPT ![t] = [found |-> TRUE, latency |-> l, reliability |-> r]]
    /\ queryPC' = [queryPC EXCEPT ![t] = "done"]
    /\ UNCHANGED <<virtualIP, pathCache, paths, topState, query, local, unattached>>

\* The call returns to its caller.
QueryReturn(t) ==
    /\ UNCHANGED <<engineVars, lockVars, graphVars>>
    /\ topState = "ready"
    /\ queryPC[t] = "done"
    /\ queryPC' = [queryPC EXCEPT ![t] = "idle"]
    /\ query' = [query EXCEPT ![t] = NoQuery]
    /\ local' = [local EXCEPT ![t] = NoLocal]
    /\ result' = [result EXCEPT ![t] = NotFound]
    /\ unattached' = [unattached EXCEPT ![t] = {}]
    /\ UNCHANGED <<virtualIP, pathCache, paths, topState>>

\* topology_free, at teardown: the virtualIP table is destroyed and
\* _topology_clearCache destroys the cache tables, which frees every cached Path.
TopologyFree ==
    /\ UNCHANGED <<engineVars, lockVars, graphVars>>
    /\ topState = "ready"
    /\ \A t \in Threads : queryPC[t] = "idle"
    /\ topState' = "freed"
    /\ virtualIP' = EmptyTable
    /\ pathCache' = EmptyTable
    /\ paths' = [p \in DOMAIN paths |-> [paths[p] EXCEPT !.freed = TRUE]]
    /\ UNCHANGED <<queryPC, query, local, result, unattached>>

\* One thread queries while hosts are attached and detached.
TopoNext ==
    \/ \E a \in Addrs, k \in 0..RandomSteps : Attach(a, k)
    \/ AttachDies
    \/ \E a \in Addrs : Detach(a)
    \/ \E src \in Addrs, dst \in Addrs : QueryStart(MainThread, src, dst)
    \/ QueryVertexSrc(MainThread)
    \/ QueryVertexDst(MainThread)
    \/ QueryCompute(MainThread)
    \/ QueryStore(MainThread)
    \/ QueryRead(MainThread)
    \/ QueryReturn(MainThread)
    \/ TopologyFree

\* The worker threads query concurrently once every host is attached.
RaceNext ==
    \/ \E t \in Threads, src \in Addrs, dst \in Addrs : QueryStart(t, src, dst)
    \/ \E t \in Threads : QueryVertexSrc(t)
    \/ \E t \in Threads : QueryVertexDst(t)
    \/ \E t \in Threads : QueryCompute(t)
    \/ \E t \in Threads : QueryStore(t)
    \/ \E t \in Threads : QueryRead(t)
    \/ \E t \in Threads : QueryReturn(t)
    \/ TopologyFree

(***************************************************************************)
(* Part III: the locks of the Topology Router                              *)
(*                                                                         *)
(* Every router call, reduced to the lock, unlock and access steps it      *)
(* makes on graphLock, virtualIPLock and pathCacheLock, one step at a      *)
(* time, so that a thread can be seen holding a lock and waiting for one.  *)
(***************************************************************************)

\* _topology_getPathFromCache
CacheLookupLocks ==
    << Lock("pathCacheLock", "r"), Use("pathCacheLock"), Unlock("pathCacheLock", "r") >>

\* _topology_getConnectedVertexIndex
VertexIndexLocks ==
    << Lock("virtualIPLock", "r"), Use("virtualIPLock"), Unlock("virtualIPLock", "r") >>

\* _topology_storePathInCache
StoreLocks ==
    << Lock("pathCacheLock", "w"), Use("pathCacheLock"), Unlock("pathCacheLock", "w") >>

\* A plausible slip: the Path is inserted before graphLock is released.
MissLocksStoreInside(out) ==
    CacheLookupLocks \o VertexIndexLocks \o VertexIndexLocks \o
    (IF out = "ok"
     THEN << Lock("graphLock", "x"), Use("graphLock"), Use("graphLock") >> \o StoreLocks \o
          << Unlock("graphLock", "x") >>
     ELSE ComputeLocks(out))

\* _topology_getPathEntry on a cache miss
MissLocks(out) ==
    CacheLookupLocks \o VertexIndexLocks \o VertexIndexLocks \o ComputeLocks(out) \o
    (IF out = "ok" THEN StoreLocks ELSE << >>)

\* topology_connect
ConnectLocks ==
    << Lock("graphLock", "x"), Use("graphLock"), Unlock("graphLock", "x"),
       Lock("virtualIPLock", "w"), Use("virtualIPLock"), Unlock("virtualIPLock", "w"),
       Lock("graphLock", "x"), Use("graphLock"), Unlock("graphLock", "x") >>

\* topology_disconnect
DisconnectLocks ==
    << Lock("virtualIPLock", "w"), Use("virtualIPLock"), Unlock("virtualIPLock", "w") >>

\* A plausible slip: the cache is cleared with graphLock taken inside the
\* writer lock (to read shortestPathTotalTime, which graphLock protects).
ClearCacheLocksNested ==
    << Lock("pathCacheLock", "w"), Use("pathCacheLock"),
       Lock("graphLock", "x"), Use("graphLock"), Unlock("graphLock", "x"),
       Unlock("pathCacheLock", "w") >>

\* _topology_clearCache
ClearCacheLocks ==
    << Lock("pathCacheLock", "w"), Use("pathCacheLock"), Unlock("pathCacheLock", "w") >>

\* topology_free
FreeLocks ==
    << Lock("virtualIPLock", "w"), Use("virtualIPLock"), Unlock("virtualIPLock", "w") >> \o
    ClearCacheLocks \o
    << Lock("graphLock", "x"), Use("graphLock"), Unlock("graphLock", "x") >>

\* The ways _topology_computePath can end on a miss.
MissOutcomes == {"unattached", "igraph_vs_1", "dijkstra", "get_eid", "ok"}

\* The calls a thread can make: attach, detach, a query (a hit, or a miss
\* with the way the computation ends), a cache clear, teardown.
LockOps ==
    {<<"connect">>, <<"disconnect">>, <<"hit">>, <<"clearCache">>, <<"free">>}
    \cup {<<"miss", out>> : out \in MissOutcomes}

LockProgram(op) ==
    CASE op[1] = "connect" -> ConnectLocks
      [] op[1] = "disconnect" -> DisconnectLocks
      [] op[1] = "hit" -> CacheLookupLocks
      [] op[1] = "miss" -> MissLocks(op[2])
      [] op[1] = "clearCache" -> ClearCacheLocks
      [] op[1] = "free" -> FreeLocks

\* The GRWLock named l.
RWLock(l) == IF l = "virtualIPLock" THEN virtualIPLock ELSE pathCacheLock

\* Thread t holds lock l (the mutex, or the GRWLock as its writer or a reader).
Holds(t, l) ==
    IF l = "graphLock" THEN graphLock = t
    ELSE RWLock(l).writer = t \/ t \in RWLock(l).readers

\* g_mutex_lock, g_rw_lock_writer_lock and g_rw_lock_reader_lock return.
CanAcquire(step) ==
    IF step.lock = "graphLock" THEN graphLock = NoThread
    ELSE IF step.mode = "w"
         THEN RWLock(step.lock).writer = NoThread /\ RWLock(step.lock).readers = {}
         ELSE RWLock(step.lock).writer = NoThread

\* The step thread t is at.
StepOf(t) == LockProgram(lockPC[t].op)[lockPC[t].at]

InCall(t) == lockPC[t] # NoCall

\* Thread t is not blocked in a lock call.
CanStep(t) == InCall(t) /\ (StepOf(t).do = "lock" => CanAcquire(StepOf(t)))

\* The GRWLock named l after thread t made the step
RWLockAfter(l, t, step) ==
    IF step.lock # l \/ step.do = "use" THEN RWLock(l)
    ELSE IF step.do = "lock"
         THEN (IF step.mode = "w" THEN [RWLock(l) EXCEPT !.writer = t]
               ELSE [RWLock(l) EXCEPT !.readers = @ \cup {t}])
         ELSE (IF step.mode = "w" THEN [RWLock(l) EXCEPT !.writer = NoThread]
               ELSE [RWLock(l) EXCEPT !.readers = @ \ {t}])

\* A thread enters a router call.  topology_free is the teardown: it runs
\* when no other call is in progress, and no call follows it.
LockStart(t, op) ==
    /\ UNCHANGED <<engineVars, topVars, graphVars>>
    /\ topState = "ready"
    /\ ~InCall(t)
    /\ \A u \in Threads : lockPC[u].op # <<"free">>
    /\ op = <<"free">> => \A u \in Threads : ~InCall(u)
    /\ lockPC' = [lockPC EXCEPT ![t] = [op |-> op, at |-> 1]]
    /\ UNCHANGED <<graphLock, virtualIPLock, pathCacheLock>>

\* The thread makes the next lock, unlock or access step of its call.
LockStep(t) ==
    /\ UNCHANGED <<engineVars, graphVars, virtualIP, pathCache, paths, queryPC, query, local,
                   result, unattached>>
    /\ CanStep(t)
    /\ graphLock' = MutexAfter(graphLock, t, StepOf(t))
    /\ virtualIPLock' = RWLockAfter("virtualIPLock", t, StepOf(t))
    /\ pathCacheLock' = RWLockAfter("pathCacheLock", t, StepOf(t))
    /\ IF lockPC[t].at < Len(LockProgram(lockPC[t].op))
       THEN /\ lockPC' = [lockPC EXCEPT ![t].at = @ + 1]
            /\ UNCHANGED topState
       ELSE /\ lockPC' = [lockPC EXCEPT ![t] = NoCall]
            /\ topState' = IF lockPC[t].op = <<"free">> THEN "freed" ELSE topState

LockNext ==
    \/ \E t \in Threads, op \in LockOps : LockStart(t, op)
    \/ \E t \in Threads : LockStep(t)

(***************************************************************************)
(* Part IV: construction of the router and the path computation, as        *)
(* functions of the graph in the GraphML file                              *)
(***************************************************************************)

Edge(u, v, latency, packetloss) ==
    [from |-> u, to |-> v, latency |-> latency, packetloss |-> packetloss]

\* The edge lists of the graph files: the number of vertices and the edges
\* in file order (latency in ms, packetloss in percent).
EdgeShapes ==
    { \* two PoIs, one edge each way (scenarios 1 and 2)
      [n |-> 2, edges |-> << Edge(0, 1, 10, 5), Edge(1, 0, 10, 5) >>],
      \* A - B - C, no direct edge between A and C (scenario 3)
      [n |-> 3, edges |-> << Edge(0, 1, 5, 0), Edge(1, 0, 5, 0),
                             Edge(1, 2, 5, 10), Edge(2, 1, 5, 10) >>],
      \* the triangle with a slow direct edge between A and C
      [n |-> 3, edges |-> << Edge(0, 1, 5, 0), Edge(1, 0, 5, 0),
                             Edge(1, 2, 5, 10), Edge(2, 1, 5, 10),
                             Edge(0, 2, 20, 0), Edge(2, 0, 20, 0) >>],
      \* two PoIs joined by two links: two edges each way
      [n |-> 2, edges |-> << Edge(0, 1, 9, 0), Edge(0, 1, 5, 20),
                             Edge(1, 0, 5, 20), Edge(1, 0, 9, 0) >>],
      \* not strongly connected: nothing leads back from B
      [n |-> 2, edges |-> << Edge(0, 1, 10, 0) >>],
      \* not connected at all: C is isolated
      [n |-> 3, edges |-> << Edge(0, 1, 5, 0), Edge(1, 0, 5, 0) >>] }

\* The packetloss attribute of the vertices, in percent.
LossPatterns == { <<0, 0, 0>>, <<10, 20, 0>>, <<100, 0, 50>> }

VertexIds == << <<"p", "o", "i", "A">>, <<"p", "o", "i", "B">>, <<"p", "o", "i", "C">> >>

\* The vertex indices a graph file can have.
VertexIndices == 0..(Len(VertexIds) - 1)

MakeGraph(shape, loss) ==
    [id |-> SubSeq(VertexIds, 1, shape.n),
     packetloss |-> SubSeq(loss, 1, shape.n),
     bandwidthup |-> [i \in 1..shape.n |-> 100],
     bandwidthdown |-> [i \in 1..shape.n |-> 100],
     edges |-> shape.edges]

\* The graph files topology_new is given.
Graphs == {MakeGraph(shape, loss) : shape \in EdgeShapes, loss \in LossPatterns}

\* The vertices a directed path leads to from the vertices in seen.
RECURSIVE Reach(_, _)
Reach(g, seen) ==
    LET more == seen \cup {v \in Vertices(g) : \E u \in seen : EdgesBetween(g, u, v) # {}}
    IN IF more = seen THEN seen ELSE Reach(g, more)

\* igraph_is_connected(graph, &isConnected, IGRAPH_STRONG)
isConnected(g) == \A u \in Vertices(g) : Reach(g, {u}) = Vertices(g)

\* igraph_clusters(graph, NULL, NULL, &clusterCount, IGRAPH_STRONG)
clusterCount(g) ==
    Cardinality({ {v \in Vertices(g) : v \in Reach(g, {u}) /\ u \in Reach(g, {v})} :
                  u \in Vertices(g) })

\* The library calls of topology_new that can return non-success.
LoadFaults ==
    {"none", "fopen", "igraph_read_graph_graphml", "igraph_is_connected", "igraph_clusters",
     "igraph_cattribute_list", "igraph_vit_create", "igraph_eit_create", "igraph_edge",
     "igraph_vector_init", "EANV"}

\* _topology_loadGraph
topology_loadGraph(fault) == fault \notin {"fopen", "igraph_read_graph_graphml"}

\* A plausible slip: only the number of clusters is looked at, with the
\* comparison off by one.
topology_checkGraphPropertiesLax(g, fault) ==
    /\ fault \notin {"igraph_is_connected", "igraph_clusters"}
    /\ ~(clusterCount(g) > 2)
    /\ fault # "igraph_cattribute_list"

\* _topology_checkGraphProperties
topology_checkGraphProperties(g, fault) ==
    /\ fault \notin {"igraph_is_connected", "igraph_clusters"}
    /\ ~(~isConnected(g) \/ clusterCount(g) > 1)
    /\ fault # "igraph_cattribute_list"

\* _topology_checkGraphVertices: fails when _topology_iterateAllVertices
\* returns -1
topology_checkGraphVertices(fault) == fault # "igraph_vit_create"

\* _topology_checkGraphEdges: fails when _topology_iterateAllEdges returns
\* -1; a failed igraph_edge only ends that call of the hook
topology_checkGraphEdges(fault) == fault # "igraph_eit_create"

\* _topology_checkGraph
topology_checkGraph(g, fault) ==
    /\ topology_checkGraphProperties(g, fault)
    /\ topology_checkGraphVertices(fault)
    /\ topology_checkGraphEdges(fault)

\* _topology_extractEdgeWeights
topology_extractEdgeWeights(fault) == fault \notin {"igraph_vector_init", "EANV"}

\* topology_new(graphPath): a Topology, or NULL after topology_free
topology_new(g, fault) ==
    IF topology_loadGraph(fault) /\ topology_checkGraph(g, fault)
           /\ topology_extractEdgeWeights(fault)
    THEN "loaded" ELSE "null"

\* The engine constructs the router from a graph file.
TopologyNew(fault) ==
    /\ UNCHANGED <<engineVars, topVars, lockVars>>
    /\ topology.state = "none"
    /\ topology' = [state |-> topology_new(graph, fault), fault |-> fault]
    /\ UNCHANGED <<graph, computedPath, drawn>>

\* _topology_computePath for two connected vertices, every igraph call
\* succeeding: the Path handed to path_new.
ComputePath(srcVertexIndex, dstVertexIndex) ==
    /\ UNCHANGED <<engineVars, topVars, lockVars>>
    /\ topology.state = "loaded"
    /\ {srcVertexIndex, dstVertexIndex} \subseteq Vertices(graph)
    /\ computedPath' = [src |-> srcVertexIndex, dst |-> dstVertexIndex,
                        latency |-> PathValue(graph, srcVertexIndex, dstVertexIndex).latency,
                        reliability |->
                            PathValue(graph, srcVertexIndex, dstVertexIndex).reliability]
    /\ UNCHANGED <<graph, topology, drawn>>

\* topology_connect up to the pops: the candidates are collected, the random
\* source returns k / RandomSteps, and the head of the queue is popped count
\* times.
ConnectDraw(k) ==
    /\ UNCHANGED <<engineVars, topVars, lockVars>>
    /\ topology.state = "loaded"
    /\ drawn' = [k |-> k,
                 count |-> IF Len(Candidates(graph)) > 1
                           THEN RoundCount(Len(Candidates(graph)), k) ELSE 1,
                 vertexIndexPtr |-> PoppedPointer(graph, k)]
    /\ UNCHANGED <<graph, topology, computedPath>>

GraphNext ==
    \/ \E fault \in LoadFaults : TopologyNew(fault)
    \/ \E s \in VertexIndices, d \in VertexIndices : ComputePath(s, d)
    \/ \E k \in 0..RandomSteps : ConnectDraw(k)

\* Any of the graph files, before topology_new.
GraphInit ==
    /\ InitEngine /\ minTimeJump = 1 /\ endTime = 1
    /\ InitTopology /\ InitLocks
    /\ graph \in Graphs
    /\ topology = [state |-> "none", fault |-> "none"]
    /\ computedPath = NoPath
    /\ drawn = NoDraw

GraphSpec == GraphInit /\ [][GraphNext]_vars

(***************************************************************************)
(* Specifications                                                          *)
(***************************************************************************)

Next ==
    \/ \E h \in Hosts, t \in 0..MaxEndTime : PushEvent(h, t)
    \/ EngineRun
    \/ EngineBeginWindow
    \/ EngineDispatch
    \/ EngineWait
    \/ EngineWake
    \/ EngineAdvance
    \/ EngineJoin
    \/ EngineFree
    \/ \E w \in Workers, h \in Hosts : WorkerClaim(w, h)
    \/ \E w \in Workers : WorkerExecuteEvent(w)
    \/ \E w \in Workers : WorkerNotify(w)
    \/ \E w \in Workers : WorkerSignal(w)

Init == InitEngine /\ InitTopology /\ InitLocks /\ InitGraphLoaded(TheGraph)

\* The engine and its workers; the router stays as constructed.
Spec == Init /\ [][Next]_vars

\* The router and its callers; the engine stays as constructed.
TopoInit == Init /\ minTimeJump = 1 /\ endTime = 1

TopoSpec == TopoInit /\ [][TopoNext]_vars

\* Every address was attached (to whatever vertex topology_connect read)
\* before the threads start to query.
RaceInit ==
    /\ InitEngine /\ minTimeJump = 1 /\ endTime = 1
    /\ InitLocks /\ InitGraphLoaded(TheGraph)
    /\ \E attached \in [Addrs -> DerefOutcomes(TheGraph)] : InitTopologyWith(attached)

RaceSpec == RaceInit /\ [][RaceNext]_vars

\* One caller: the router calls are made one after the other, so no host is
\* attached or detached while a query is under way.
SeqNext ==
    \/ \E a \in Addrs, k \in 0..RandomSteps : queryPC[MainThread] = "idle" /\ Attach(a, k)
    \/ queryPC[MainThread] = "idle" /\ AttachDies
    \/ \E a \in Addrs : queryPC[MainThread] = "idle" /\ Detach(a)
    \/ \E src \in Addrs, dst \in Addrs : QueryStart(MainThread, src, dst)
    \/ QueryVertexSrc(MainThread)
    \/ QueryVertexDst(MainThread)
    \/ QueryCompute(MainThread)
    \/ QueryStore(MainThread)
    \/ QueryRead(MainThread)
    \/ QueryReturn(MainThread)
    \/ TopologyFree

SeqSpec == TopoInit /\ [][SeqNext]_vars

\* The lock-level steps of the router calls of two threads.
LockSpec == TopoInit /\ [][LockNext]_vars

\* The engine thread and every pool thread are OS threads: each keeps running
\* while it has a step to take.
EngineStep ==
    EngineRun \/ EngineBeginWindow \/ EngineDispatch \/ EngineWait \/ EngineWake
        \/ EngineAdvance \/ EngineJoin \/ EngineFree

WorkerStep(w) ==
    (\E h \in Hosts : WorkerClaim(w, h)) \/ WorkerExecuteEvent(w) \/ WorkerNotify(w)
        \/ WorkerSignal(w)

FairSpec ==
    Spec /\ WF_vars(EngineStep) /\ \A w \in Workers : WF_vars(WorkerStep(w))

(***************************************************************************)
(* Properties of the engine                                                *)
(***************************************************************************)

Ran(h) == executed[h].fireTime >= 0

C2_AdvanceOnlyWhenIdle ==
    [][(executeWindowStart' # executeWindowStart \/ clock' # clock) =>
          /\ nNodesToProcess = 0
          /\ workerPool = {}
          /\ \A w \in Workers : workerPC[w] = "idle"]_vars

\* The engine has advanced past a window in which both hosts ran an event.
C2_Witness ==
    /\ executeWindowStart > 0
    /\ clock = executeWindowStart
    /\ \A h \in Hosts : Ran(h)

\* C3: under fair scheduling every window completes: an engine that waits on
\* workersIdle is eventually woken.
C3_WindowCompletes ==
    (engineState = "Running" /\ enginePC = "wait") ~> (enginePC = "advance")

C5_PerHostOrder ==
    [][\A h \in Hosts :
          executed'[h] # executed[h] =>
             \/ executed[h].fireTime < executed'[h].fireTime
             \/ /\ executed[h].fireTime = executed'[h].fireTime
                /\ executed[h].tag <= executed'[h].tag]_vars

\* A host has executed events in two windows (every window that completes
\* has run an event on every host).
C5_Witness ==
    \E h \in Hosts : Ran(h) /\ executed[h].win >= 2

\* C6: no event is executed with fireTime < executeWindowStart of the window
\* it is executed in.
C6_NoLateDelivery ==
    \A h \in Hosts : Ran(h) => executed[h].fireTime >= executed[h].winStart

\* An event has been executed in a window that does not start at zero.
C6_Witness ==
    \E h \in Hosts : Ran(h) /\ executed[h].winStart > 0

WindowsToEnd == (endTime + minTimeJump - 1) \div minTimeJump

\* C8: run() ends with clock = endTime after ceil(endTime / minTimeJump)
\* windows, and every event is executed in the window
\* [start, start + minTimeJump) that holds its fireTime.  (Stated for the
\* runs in which every host has executed an event.)
C8_RunEndsAtEndTime ==
    /\ (engineState \in {"Draining", "Killed", "Freed"} /\ \A h \in Hosts : Ran(h)) =>
          clock = endTime /\ nWindows = WindowsToEnd
    /\ \A h \in Hosts : Ran(h) =>
          /\ executed[h].winStart <= executed[h].fireTime
          /\ executed[h].fireTime < executed[h].winStart + minTimeJump

(***************************************************************************)
(* Properties of the Topology Router                                       *)
(***************************************************************************)

\* C9: when the source or the destination address of a query is not
\* attached at the time of the query, getLatency and getReliability return
\* -1 and isRoutable returns false, whatever was attached, detached and
\* queried before.  (unattached[t] holds the addresses of the call of thread
\* t that have been unattached since the call started.)
C9_UnattachedFails ==
    \A t \in Threads :
        (queryPC[t] = "done" /\ unattached[t] # {}) =>
            /\ topology_getLatency(result[t]) = -1
            /\ topology_getReliability(result[t]) = -1
            /\ ~topology_isRoutable(result[t])

\* C10: before teardown no Path that was handed to the cache is freed, and
\* no thread is about to read the latency or reliability of a freed Path.
C10_PathsLiveUntilTeardown ==
    topState = "ready" =>
        /\ \A p \in DOMAIN paths : ~paths[p].freed
        /\ \A t \in Threads : queryPC[t] = "read" => ~paths[local[t].path].freed

\* C11: cache coherence.  While the router is up, a query that reads a Path
\* returns the latency and reliability of the Path the cache holds for its pair, the
\* entry of a pair never changes once it is set, and no thread finishes a
\* shortest-path computation for a pair whose entry is already set: so every
\* repeated query returns what the first successful one returned, and the
\* first stored miss is followed by hits only.
C11_CacheCoherence ==
    [][(topState = "ready" /\ topState' = "ready") =>
        /\ \A t \in Threads :
               (queryPC[t] = "read" /\ queryPC'[t] = "done") =>
                   LET p == CacheLookup(query[t].src, query[t].dst)
                   IN /\ p # NULL
                      /\ result'[t].found
                      /\ result'[t].latency = paths[p].latency
                      /\ result'[t].reliability = paths[p].reliability
        /\ \A src, dst \in Addrs :
               CacheLookup(src, dst) # NULL =>
                   /\ src \in DOMAIN pathCache' /\ dst \in DOMAIN pathCache'[src]
                   /\ pathCache'[src][dst] = pathCache[src][dst]
        /\ \A t \in Threads :
               (queryPC[t] = "compute" /\ queryPC'[t] = "store") =>
                   CacheLookup(query[t].src, query[t].dst) = NULL]_vars

\* C14: when a graph-library call of _topology_computePath returns
\* non-success (the step from "compute" straight to "done"), the query
\* returns -1 / -1 / false, the calling thread does not hold graphLock
\* afterwards nor when the call returns, no Path is allocated and the path
\* cache is left as it was, so the pair is still to be computed.
C14_LibraryFailure ==
    [][\A t \in Threads :
          /\ (queryPC[t] = "compute" /\ queryPC'[t] = "done") =>
                 /\ topology_getLatency(result'[t]) = -1
                 /\ topology_getReliability(result'[t]) = -1
                 /\ ~topology_isRoutable(result'[t])
                 /\ graphLock' # t
                 /\ pathCache' = pathCache
                 /\ paths' = paths
          /\ (queryPC[t] = "done" /\ queryPC'[t] = "idle") => graphLock # t]_vars

\* A query of attached addresses has failed in the graph library; its pair
\* has no cache entry and graphLock is free.
C14_Witness ==
    \E t \in Threads :
        /\ queryPC[t] = "done"
        /\ ~result[t].found
        /\ {query[t].src, query[t].dst} \subseteq DOMAIN virtualIP
        /\ CacheLookup(query[t].src, query[t].dst) = NULL
        /\ graphLock = NoThread

\* C15: topology_connect always completes (the process never stops inside
\* it, whatever the random source returns and whichever PoI is picked), and
\* after any sequence of attach and detach calls every attached address
\* maps to one vertex of the graph whose id contains "poi".
C15_AttachRecordsPoi ==
    /\ topState # "crashed"
    /\ \A a \in DOMAIN virtualIP :
           /\ virtualIP[a] \in Vertices(TheGraph)
           /\ IsPoi(TheGraph.id[virtualIP[a] + 1])

(***************************************************************************)
(* Properties of the locks                                                 *)
(***************************************************************************)

\* C12: no thread holds graphLock while it makes a step of a path-cache
\* operation (taking or dropping pathCacheLock, lookup, insert, clear), and
\* no thread holds pathCacheLock while it makes a step of a graph operation;
\* so a cache-miss query has released graphLock before it inserts.
C12_LocksNotHeldAcross ==
    \A t \in Threads :
        InCall(t) =>
            /\ StepOf(t).lock = "pathCacheLock" => ~Holds(t, "graphLock")
            /\ StepOf(t).lock = "graphLock" => ~Holds(t, "pathCacheLock")

\* A cache-miss query is inserting its Path while another thread is inside
\* the graph lock.
C12_Witness ==
    \E t, u \in Threads :
        /\ lockPC[t].op = <<"miss", "ok">>
        /\ StepOf(t) = Use("pathCacheLock")
        /\ pathCacheLock.writer = t
        /\ graphLock = u

\* The lock order of the router: virtualIPLock, then graphLock, then pathCacheLock.
LockRank(l) == CASE l = "virtualIPLock" -> 1 [] l = "graphLock" -> 2 [] l = "pathCacheLock" -> 3

\* Some thread in a call can make its next step.
DeadlockFree == (\E t \in Threads : InCall(t)) => (\E t \in Threads : CanStep(t))

SelfPath == computedPath.src # NoVertex /\ computedPath.src = computedPath.dst

MinPathLatency(g, s, d) ==
    LET sums == {PathWeight(g, p) : p \in {q \in SimplePaths(g) : q[1] = s /\ q[Len(q)] = d}}
    IN CHOOSE w \in sums : \A x \in sums : w <= x

\* C17: for addresses on different vertices, getLatency is the minimum over
\* all directed paths between the two vertices of the sum of the edge
\* latencies, also when several edges join the same two vertices.
C17_ShortestLatency ==
    (computedPath.src # NoVertex /\ computedPath.src # computedPath.dst) =>
        computedPath.latency = MinPathLatency(graph, computedPath.src, computedPath.dst)

\* The product of the loss complements (100 - packetloss) of a sequence of
\* packetloss values in percent.
RECURSIVE KeepProduct(_)
KeepProduct(losses) ==
    IF losses = << >> THEN 1 ELSE (100 - Head(losses)) * KeepProduct(Tail(losses))

RECURSIVE Pow100(_)
Pow100(n) == IF n = 0 THEN 1 ELSE 100 * Pow100(n - 1)

\* (1 - plossSrcVertex) * product of (1 - plossEdge) over the edges walked
\* from s to d * (1 - plossDstVertex), as a fraction of RelUnit = 100^4.
EndToEndReliability(g, s, d) ==
    LET p == ShortestPath(g, s, d)
        walked == [i \in 1..(Len(p) - 1) |-> g.edges[GetEid(g, p[i], p[i + 1])].packetloss]
        losses == <<VertexLoss(g, s)>> \o walked \o <<VertexLoss(g, d)>>
    IN KeepProduct(losses) * Pow100(4 - Len(losses))

SymmetricGraph(g) ==
    \A e \in EdgeIds(g) : \E f \in EdgeIds(g) :
        /\ g.edges[f].from = g.edges[e].to
        /\ g.edges[f].to = g.edges[e].from
        /\ g.edges[f].latency = g.edges[e].latency

\* C19: on a symmetric graph the latency computed from a's vertex to b's
\* vertex equals the one computed from b's vertex to a's vertex.
C19_SymmetricLatency ==
    (computedPath.src # NoVertex /\ SymmetricGraph(graph)) =>
        computedPath.latency =
            PathValue(graph, computedPath.dst, computedPath.src).latency

\* C20: for a graph file with more than one strong cluster topology_new
\* returns NULL, whatever else happens while loading, and no path is ever
\* computed on it.
C20_NotConnectedFails ==
    (topology.state # "none" /\ clusterCount(graph) > 1) =>
        (topology.state = "null" /\ computedPath = NoPath)

\* A graph file with two strong clusters was rejected with every library
\* call succeeding.
C20_Witness ==
    /\ clusterCount(graph) > 1
    /\ topology = [state |-> "null", fault |-> "none"]

(***************************************************************************)
(* Properties of concurrent inserts, of the barrier, of the engine's life  *)
(* cycle, of the attachment draw, of the construction stages and of        *)
(* re-attachment                                                           *)
(***************************************************************************)
\* C21: when a thread inserts its Path for a pair whose entry was already
\* published by another insert, the entry stays what it was, the Path it
\* points to stays allocated, and the Path of the later insert is the one
\* freed: the entry of a pair is set at most once before the cache is cleared.
C21_FirstInsertKept ==
    [][\A t \in Threads :
          (/\ queryPC[t] = "store" /\ queryPC'[t] = "read"
           /\ CacheLookup(query[t].src, query[t].dst) # NULL) =>
              /\ pathCache' = pathCache
              /\ ~paths'[CacheLookup(query[t].src, query[t].dst)].freed
              /\ paths'[local[t].path].freed]_vars

\* The workers that saw the post-decrement value zero and have not signalled yet.
SawZero == {w \in Workers : workerPC[w] = "signal"}

\* The barrier never counts below zero, and no window has a second worker
\* that sees zero or a second signal: a worker that saw zero is alone, the
\* counter is still zero and the condition is not yet signalled; once
\* signalled the counter is zero and nobody else is about to signal.
BarrierSafe ==
    /\ nNodesToProcess >= 0
    /\ Cardinality(SawZero) <= 1
    /\ SawZero # {} => (nNodesToProcess = 0 /\ ~workersIdle)
    /\ workersIdle => (nNodesToProcess = 0 /\ SawZero = {})

StateOrder ==
    {<<"Initialized", "Running">>, <<"Running", "Draining">>,
     <<"Draining", "Killed">>, <<"Killed", "Freed">>}

C24_PopIsFloorIndex ==
    (drawn # NoDraw /\ Len(Candidates(graph)) >= 2 /\ drawn.k < RandomSteps) =>
        /\ drawn.count > 0
        /\ drawn.vertexIndexPtr =
               Candidates(graph)[((Len(Candidates(graph)) * drawn.k) \div RandomSteps) + 1]

\* C25: when any library call of the construction returns non-success
\* (opening or parsing the file, the connectivity calls, the attribute
\* listing, the vertex iterator, the edge iterator, the lookup of an edge
\* inside the edge iteration, the weight vector), topology_new returns
\* NULL; it returns a Topology only when all of them succeeded and the
\* graph passed the connectivity test.
C25_AnyFailureAborts ==
    /\ (topology.state # "none" /\ topology.fault # "none") => topology.state = "null"
    /\ topology.state = "loaded" => (topology.fault = "none" /\ clusterCount(graph) = 1)

\* C26: whatever was attached, detached and queried before, a query for two
\* attached addresses that finds its pair in the cache is handed a Path whose
\* latency and reliability are those a shortest-path computation gives for
\* the vertices the two addresses are attached to when the query is made.
C26_FreshAfterReattach ==
    [][\A t \in Threads :
          (/\ queryPC[t] = "idle" /\ queryPC'[t] = "read"
           /\ {query'[t].src, query'[t].dst} \subseteq DOMAIN virtualIP) =>
              LET fresh == ComputedPaths[virtualIP[query'[t].src]]
                                        [virtualIP[query'[t].dst]].path
              IN /\ paths[local'[t].path].latency = fresh.latency
                 /\ paths[local'[t].path].reliability = fresh.reliability]_vars

=============================================================================
